---------------------------- MODULE Spec2Model ----------------------------
(***************************************************************************)
(* Prasad Realty (src/app.py): the catalog filter/sort pipeline, the       *)
(* session state and the lead ledger of the Streamlit script.              *)
(*                                                                         *)
(* The script is re-run from top to bottom on every interaction.  One      *)
(* action of this module is one interaction together with the run it       *)
(* triggers (and the run that st.rerun() starts, where the handler calls   *)
(* it).  st.session_state is the state that survives between runs.         *)
(*                                                                         *)
(* Text the code inspects character by character (names, phones, emails,   *)
(* notes, titles, addresses, the search query) is a sequence of            *)
(* one-character strings.  Text the code only compares for equality        *)
(* (region, condition, home type, sort mode, messages) is a string.        *)
(***************************************************************************)
EXTENDS Integers, Sequences, FiniteSets, TLC

VARIABLES
    user,                 \* st.session_state.user: the signed-in name, NoUser for None
    leads,                \* st.session_state.leads: the lead ledger
    favorites,            \* st.session_state.favorites: set of property ids
    show,                 \* ids whose st.session_state["show_<id>"] is True
    visit_fallback_open,  \* st.session_state.visit_fallback_open
    visit_fallback_p,     \* st.session_state.visit_fallback_p: a position in data, 0 for None
    s,                    \* the s_* filter keys of st.session_state
    data,                 \* the loaded property collection (load_data())
    filtered,             \* the view of the last run: positions in data, in display order
    has_dialog,           \* hasattr(st, "dialog") or hasattr(st, "experimental_dialog")
    dlg,                  \* the position in data of the open dialog's property, 0 for none
    form,                 \* the draft held by the widgets of the form being filled in
    arg,                  \* the input of the function a specification runs on its own
    out                   \* the last run: the handler that fired and the messages shown

vars == <<user, leads, favorites, show, visit_fallback_open, visit_fallback_p,
          s, data, filtered, has_dialog, dlg, form, arg, out>>

None == "None"

\* user is only ever tested for truth, which None and "" both fail
NoUser == <<>>

\* a value that may be None, where the types differ: <<>> for None, <<v>> for v
Null == <<>>
Some(v) == <<v>>

-----------------------------------------------------------------------------
(* Bounds of the model.                                                    *)

MaxLeads == 2        \* records the ledger may hold before submissions stop
MaxData == 2         \* properties in a drawn collection (predicate checks)
MaxSortData == 3     \* properties in a drawn collection (ordering checks)
MaxQuery == 3        \* characters in a drawn search query
MaxPhone == 18       \* characters in a drawn phone number

-----------------------------------------------------------------------------
(* Characters and str methods.                                             *)

Upper == <<"A","B","C","D","E","F","G","H","I","J","K","L","M","N","O","P","Q","R","S","T","U","V","W","X","Y","Z">>
Lower == <<"a","b","c","d","e","f","g","h","i","j","k","l","m","n","o","p","q","r","s","t","u","v","w","x","y","z">>

Range(f) == {f[i] : i \in DOMAIN f}

Letter == Range(Upper) \cup Range(Lower)
Digit == {"0","1","2","3","4","5","6","7","8","9"}
\* what str.strip() removes and the regex class \s matches
WS == {" ", "\t", "\n"}

\* one character of str.lower()
LowerChar(c) ==
    IF c \in Range(Upper)
    THEN Lower[CHOOSE i \in DOMAIN Upper : Upper[i] = c]
    ELSE c

\* str.lower()
lower(t) == [i \in DOMAIN t |-> LowerChar(t[i])]

\* str.strip()
strip(t) ==
    LET keep == {i \in DOMAIN t : t[i] \notin WS}
    IN  IF keep = {} THEN <<>>
        ELSE LET lo == CHOOSE i \in keep : \A j \in keep : i <= j
                 hi == CHOOSE i \in keep : \A j \in keep : j <= i
             IN  SubSeq(t, lo, hi)

\* the operator "q in hay" on str
In(q, hay) ==
    \E k \in 0..(Len(hay) - Len(q)) : SubSeq(hay, k + 1, k + Len(q)) = q

\* dict.get(key, default)
Get(p, key, default) == IF key \in DOMAIN p THEN p[key] ELSE default

\* dict.get(key), where the value is not a string
GetOpt(p, key) == IF key \in DOMAIN p THEN Some(p[key]) ELSE Null

\* all sequences over alphabet A of length at most n
RECURSIVE SeqsUpTo(_, _)
SeqsUpTo(A, n) ==
    IF n = 0 THEN {<<>>}
    ELSE LET shorter == SeqsUpTo(A, n - 1)
         IN  shorter \cup {Append(t, c) : t \in shorter, c \in A}

-----------------------------------------------------------------------------
(* Validators (src/app.py 105-142).                                        *)

PhoneMinRest == 8
PhoneMaxRest == 15
TldMin == 2
NameMin == 2
MessageMin == 5

PhoneRestCh == Digit \cup WS \cup {"-", "(", ")"}

\* PHONE_RE.match(t): ^\+?[0-9][0-9\s\-()]{8,15}$
\* (t is stripped by the caller, so "$" can only match at the very end)
PHONE_RE(t) ==
    LET u == IF Len(t) > 0 /\ t[1] = "+" THEN Tail(t) ELSE t
    IN  /\ Len(u) >= 1
        /\ u[1] \in Digit
        /\ Len(u) - 1 >= PhoneMinRest
        /\ Len(u) - 1 <= PhoneMaxRest
        /\ \A i \in 2..Len(u) : u[i] \in PhoneRestCh

EmailLocalCh == Letter \cup Digit \cup {".", "_", "%", "+", "-"}
EmailDomainCh == Letter \cup Digit \cup {".", "-"}

\* EMAIL_RE with a final label of any domain characters: [A-Za-z0-9.-]{2,}
EMAIL_RE_any_tld(t) ==
    \E i \in 2..Len(t) :
        /\ t[i] = "@"
        /\ \A k \in 1..(i - 1) : t[k] \in EmailLocalCh
        /\ \E j \in (i + 2)..(Len(t) - TldMin) :
              /\ t[j] = "."
              /\ \A k \in (i + 1)..(j - 1) : t[k] \in EmailDomainCh
              /\ \A k \in (j + 1)..Len(t) : t[k] \in EmailDomainCh

\* EMAIL_RE.match(t): ^[A-Za-z0-9._%+-]+@[A-Za-z0-9.-]+\.[A-Za-z]{2,}$
EMAIL_RE(t) ==
    \E i \in 2..Len(t) :
        /\ t[i] = "@"
        /\ \A k \in 1..(i - 1) : t[k] \in EmailLocalCh
        /\ \E j \in (i + 2)..(Len(t) - TldMin) :
              /\ t[j] = "."
              /\ \A k \in (i + 1)..(j - 1) : t[k] \in EmailDomainCh
              /\ \A k \in (j + 1)..Len(t) : t[k] \in Letter

validate_name(name) ==
    LET n == strip(name)
    IN  IF n = <<>> THEN [ok |-> FALSE, err |-> "Name is required."]
        ELSE IF Len(n) < NameMin
        THEN [ok |-> FALSE, err |-> "Name must be at least 2 characters."]
        ELSE [ok |-> TRUE, err |-> None]

validate_phone(phone) ==
    LET ph == strip(phone)
    IN  IF ph = <<>>
        THEN [ok |-> FALSE, err |-> "Phone is required (or provide an email)."]
        ELSE IF ~PHONE_RE(ph)
        THEN [ok |-> FALSE,
              err |-> "Enter a valid phone (digits, optional +, spaces/()- allowed)."]
        ELSE [ok |-> TRUE, err |-> None]

validate_email(email, allow_blank) ==
    LET em == strip(email)
    IN  IF allow_blank /\ em = <<>> THEN [ok |-> TRUE, err |-> None]
        ELSE IF ~EMAIL_RE(em)
        THEN [ok |-> FALSE, err |-> "Enter a valid email address."]
        ELSE [ok |-> TRUE, err |-> None]

validate_message(msg) ==
    LET m == strip(msg)
    IN  IF m = <<>> THEN [ok |-> FALSE, err |-> "Message cannot be empty."]
        ELSE IF Len(m) < MessageMin
        THEN [ok |-> FALSE, err |-> "Message must be at least 5 characters."]
        ELSE [ok |-> TRUE, err |-> None]

-----------------------------------------------------------------------------
(* The property collection (src/app.py 269-393).                           *)
(*                                                                         *)
(* A property is a record that holds only the keys its JSON object has.    *)
(* price_inr is a JSON number, so it may have a fraction: the model keeps  *)
(* it in half-rupees, writes the whole amount n as Rs(n), and int() of a   *)
(* price is int_price.  Budgets, pmin_data and pmax_data are whole rupees. *)

Rs(n) == 2 * n

\* int(x) of a non-negative price: truncation to whole rupees
int_price(x) == x \div 2

\* the keys of FALLBACK that the filter, the cards' handlers and the ledger
\* read; image, insta_url, lat, lng, images, distances are only rendered
FALLBACK == <<
    [id |-> 7,
     title |-> <<"I","n","d","e","p","e","n","d","e","n","t"," ","4","B","H","K"," ","w","i","t","h"," ","g","a","r","d","e","n">>,
     region_key |-> "Hanumanthawaka", condition |-> "New", home_type |-> "Individual",
     bedrooms |-> 4, bathrooms |-> 4, area_sqft |-> 2400, price_inr |-> Rs(22500000),
     address |-> <<"C","o","l","o","n","y"," ","R","d",","," ","H","a","n","u","m","a","n","t","h","a","w","a","k","a">>],
    [id |-> 9,
     title |-> <<"M","V","P"," ","2","B","H","K"," ","c","o","r","n","e","r"," ","f","l","a","t">>,
     region_key |-> "MVP Colony", condition |-> "New", home_type |-> "Apartment",
     bedrooms |-> 2, bathrooms |-> 2, area_sqft |-> 1050, price_inr |-> Rs(7800000),
     address |-> <<"S","e","c","t","o","r"," ","5",","," ","M","V","P"," ","C","o","l","o","n","y">>],
    [id |-> 1,
     title |-> <<"2","B","H","K"," ","n","e","a","r"," ","p","a","r","k">>,
     region_key |-> "Visalakshinagar", condition |-> "New", home_type |-> "Apartment",
     bedrooms |-> 2, bathrooms |-> 2, area_sqft |-> 980, price_inr |-> Rs(6500000),
     address |-> <<"P","l","o","t"," ","2","3",","," ","V","i","s","a","l","a","k","s","h","i","n","a","g","a","r">>],
    [id |-> 4,
     title |-> <<"L","u","x","u","r","y"," ","4","B","H","K"," ","p","e","n","t","h","o","u","s","e">>,
     region_key |-> "MVP Colony", condition |-> "New", home_type |-> "Apartment",
     bedrooms |-> 4, bathrooms |-> 4, area_sqft |-> 2200, price_inr |-> Rs(32000000),
     address |-> <<"S","e","c","t","o","r"," ","1",","," ","M","V","P"," ","C","o","l","o","n","y">>] >>

Min(S) == CHOOSE x \in S : \A y \in S : x <= y
Max(S) == CHOOSE x \in S : \A y \in S : y <= x

\* regions: the non-empty region_key values of the collection
regions(d) == {Get(d[i], "region_key", "") : i \in DOMAIN d} \ {""}

region_options(d) == {"All"} \cup regions(d)

prices(d) == {Get(d[i], "price_inr", 0) : i \in DOMAIN d}

DefaultMaxBudget == 10000000

pmin_data(d) == int_price(IF prices(d) # {} THEN Min(prices(d)) ELSE 0)
pmax_data(d) == int_price(IF prices(d) # {} THEN Max(prices(d)) ELSE Rs(DefaultMaxBudget))

-----------------------------------------------------------------------------
(* Filter state and widgets (src/app.py 191-206, 398-448).                 *)

beds_opts == 0..5
condition_opts == {"All", "New", "Old"}
type_opts == {"All", "Individual", "Apartment"}
sort_opts == {"Newest", "Price ↑", "Price ↓", "Area ↑", "Area ↓"}

ChipMin == 5000000
ChipMax == 8000000
SliderStep == 500000

\* _init_filters
defaults ==
    [s_region |-> "All", s_condition |-> "All", s_type |-> "All", s_min_bed |-> 0,
     s_budget |-> <<0, DefaultMaxBudget>>, s_sort |-> "Newest", s_search |-> <<>>]

\* slider_value without the reset of crossed ends
slider_value_no_reset(b, d) ==
    <<Max({pmin_data(d), b[1]}), Min({pmax_data(d), b[2]})>>

\* the value=(min_v, max_v) the budget slider is created with
slider_value(b, d) ==
    LET min_v == Max({pmin_data(d), b[1]})
        max_v == Min({pmax_data(d), b[2]})
    IN  IF min_v > max_v THEN <<pmin_data(d), pmax_data(d)>> ELSE <<min_v, max_v>>

\* the positions the slider's handles can be dragged to
slider_stops(d) ==
    {pmin_data(d) + k * SliderStep : k \in 0..((pmax_data(d) - pmin_data(d)) \div SliderStep)}

\* the s_* keys after the widgets of a run in which the user touched none of
\* them: every widget returns the value it was created with
filters_ui(st, d) ==
    [st EXCEPT !.s_region = IF @ \in region_options(d) THEN @ ELSE "All",
               !.s_min_bed = IF @ \in beds_opts THEN @ ELSE 0,
               !.s_budget = slider_value(@, d)]

-----------------------------------------------------------------------------
(* Filter + sort (src/app.py 454-489).                                     *)

\* the budget test of matches (lines 464-467)
budget_ok(p, st) ==
    LET bmin == st.s_budget[1]
        bmax == st.s_budget[2]
        price == int_price(Get(p, "price_inr", 0))
    IN  bmin <= price /\ price <= bmax

\* search_ok without lower() on the haystack
search_ok_case(p, st) ==
    LET qlc == strip(lower(st.s_search))
        hay == Get(p, "title", <<>>) \o <<" ">> \o Get(p, "address", <<>>)
    IN  IF qlc # <<>> THEN In(qlc, hay) ELSE TRUE

\* the free-text test of matches (lines 468-473)
search_ok(p, st) ==
    LET qlc == strip(lower(st.s_search))
        hay == lower(Get(p, "title", <<>>) \o <<" ">> \o Get(p, "address", <<>>))
    IN  IF qlc # <<>> THEN In(qlc, hay) ELSE TRUE

\* matches with the bedroom test off by one
matches_bed_le(p, st) ==
    IF st.s_region # "All" /\ Get(p, "region_key", None) # st.s_region THEN FALSE
    ELSE IF st.s_condition # "All" /\ Get(p, "condition", None) # st.s_condition THEN FALSE
    ELSE IF st.s_type # "All" /\ Get(p, "home_type", None) # st.s_type THEN FALSE
    ELSE IF st.s_min_bed # 0 /\ Get(p, "bedrooms", 0) <= st.s_min_bed THEN FALSE
    ELSE budget_ok(p, st) /\ search_ok(p, st)

matches(p, st) ==
    IF st.s_region # "All" /\ Get(p, "region_key", None) # st.s_region THEN FALSE
    ELSE IF st.s_condition # "All" /\ Get(p, "condition", None) # st.s_condition THEN FALSE
    ELSE IF st.s_type # "All" /\ Get(p, "home_type", None) # st.s_type THEN FALSE
    ELSE IF st.s_min_bed # 0 /\ Get(p, "bedrooms", 0) < st.s_min_bed THEN FALSE
    ELSE IF ~budget_ok(p, st) THEN FALSE
    ELSE IF ~search_ok(p, st) THEN FALSE
    ELSE TRUE

sorter_key(p, st) ==
    IF st.s_sort = "Price ↑" THEN Get(p, "price_inr", 0)
    ELSE IF st.s_sort = "Price ↓" THEN -Get(p, "price_inr", 0)
    ELSE IF st.s_sort = "Area ↑" THEN Get(p, "area_sqft", 0)
    ELSE IF st.s_sort = "Area ↓" THEN -Get(p, "area_sqft", 0)
    ELSE -Get(p, "id", 0)

\* one step of a stable sort: x goes behind every element whose key is not larger
insort(ys, x, key) ==
    LET n == Cardinality({j \in DOMAIN ys : key[ys[j]] <= key[x]})
        k == IF \E j \in DOMAIN ys : key[ys[j]] > key[x]
             THEN Min({j \in DOMAIN ys : key[ys[j]] > key[x]}) - 1
             ELSE Len(ys)
    IN  SubSeq(ys, 1, k) \o <<x>> \o SubSeq(ys, k + 1, Len(ys))

\* sorted(xs, key=...): ascending by key, stable
RECURSIVE sorted(_, _)
sorted(xs, key) ==
    IF xs = <<>> THEN <<>>
    ELSE insort(sorted(SubSeq(xs, 1, Len(xs) - 1), key), xs[Len(xs)], key)

\* [p for p in data if matches(p)], as positions in data
matching(d, st) ==
    LET F[i \in 0..Len(d)] ==
            IF i = 0 THEN <<>>
            ELSE IF matches(d[i], st) THEN Append(F[i - 1], i) ELSE F[i - 1]
    IN  F[Len(d)]

Reverse(xs) == [i \in DOMAIN xs |-> xs[Len(xs) + 1 - i]]

\* Filtered with the descending modes sorted ascending and then reversed
Filtered_reversed(d, st) ==
    LET desc == st.s_sort \in {"Newest", "Price ↓", "Area ↓"}
        key == [i \in DOMAIN d |->
                   IF desc THEN -sorter_key(d[i], st) ELSE sorter_key(d[i], st)]
        asc == sorted(matching(d, st), key)
    IN  IF desc THEN Reverse(asc) ELSE asc

\* filtered = sorted([p for p in data if matches(p)], key=sorter_key),
\* as positions in data
Filtered(d, st) ==
    sorted(matching(d, st), [i \in DOMAIN d |-> sorter_key(d[i], st)])

\* EvalFiltered with the collection sorted in place (data.sort) before filtering
EvalFiltered_in_place(st) ==
    /\ data' = LET order == sorted([i \in DOMAIN data |-> i],
                                   [i \in DOMAIN data |-> sorter_key(data[i], st)])
               IN  [k \in DOMAIN data |-> data[order[k]]]
    /\ filtered' = matching(data', st)

\* the statement that computes the view: it binds filtered and nothing else
EvalFiltered(st) ==
    /\ filtered' = Filtered(data, st)
    /\ data' = data

-----------------------------------------------------------------------------
(* Interactions with the filter widgets (src/app.py 398-449).              *)

\* what every action leaves alone unless it says otherwise
SessionUnchanged ==
    UNCHANGED <<user, leads, favorites, show, visit_fallback_open, visit_fallback_p,
                has_dialog, dlg, form, arg>>

\* the widgets are rendered only behind the login gate (line 254), and a modal
\* dialog blocks the page under it
PageLive == user # NoUser /\ dlg = 0

\* a run in which the filter widgets return st and no handler fires
FilterRun(op, st) ==
    /\ PageLive
    /\ s' = st
    /\ EvalFiltered(st)
    /\ out' = [op |-> op, errs |-> <<>>]
    /\ SessionUnchanged

SetRegion(r) ==
    /\ r \in region_options(data) /\ r # s.s_region
    /\ FilterRun("s_region", [filters_ui(s, data) EXCEPT !.s_region = r])

SetCondition(c) ==
    /\ c \in condition_opts /\ c # s.s_condition
    /\ FilterRun("s_condition", [filters_ui(s, data) EXCEPT !.s_condition = c])

SetType(h) ==
    /\ h \in type_opts /\ h # s.s_type
    /\ FilterRun("s_type", [filters_ui(s, data) EXCEPT !.s_type = h])

SetMinBed(b) ==
    /\ b \in beds_opts /\ b # s.s_min_bed
    /\ FilterRun("s_min_bed", [filters_ui(s, data) EXCEPT !.s_min_bed = b])

\* the user drags the handles of the budget slider
SetBudget(lo, hi) ==
    /\ lo \in slider_stops(data) \cup {s.s_budget[1]}
    /\ hi \in slider_stops(data) \cup {s.s_budget[2]}
    /\ lo <= hi /\ <<lo, hi>> # s.s_budget
    /\ FilterRun("s_budget", [filters_ui(s, data) EXCEPT !.s_budget = <<lo, hi>>])

SetSort(m) ==
    /\ m \in sort_opts /\ m # s.s_sort
    /\ FilterRun("s_sort", [filters_ui(s, data) EXCEPT !.s_sort = m])

SetSearch(q) ==
    /\ q # s.s_search
    /\ FilterRun("s_search", [filters_ui(s, data) EXCEPT !.s_search = q])

\* the chip button: it sets s_budget, and the slider below it starts from that
chip_5080 ==
    FilterRun("chip_5080",
              filters_ui([s EXCEPT !.s_budget = <<ChipMin, ChipMax>>], data))

\* the demo chips only show a toast: a run with nothing changed
chip_demo == FilterRun("chip_demo", filters_ui(s, data))

-----------------------------------------------------------------------------
(* The lead ledger (src/app.py 494-539, 818-860).                          *)
(*                                                                         *)
(* A draft is what the form's widgets hold when its button is pressed:     *)
(* [name, phone, email, visit_date, visit_time, note].                     *)

Phone10 == <<"9","8","7","6","5","4","3","2","1","0">>
EmailABCo == <<"a","@","b",".","c","o">>
Hello == <<"h","e","l","l","o">>

Draft(name, phone, email, note) ==
    [name |-> name, phone |-> phone, email |-> email,
     visit_date |-> "2026-11-02", visit_time |-> "11:30:00", note |-> note]

\* the widgets of a form nobody has typed into
EmptyDraft == Draft(<<>>, <<>>, <<>>, <<>>)

\* what st.date_input and st.time_input return
Dates == {"2026-11-02"}
Times == {"11:30:00"}

\* datetime.now().isoformat(timespec="seconds"); the clock is not modelled
now == "2026-11-02T11:30:00"

NoContactMsg == "Provide at least one contact method: phone or email."

\* contact_errors with the email checked only when no phone is given (elif)
contact_errors_elif(phone_clean, email_clean) ==
    IF phone_clean = <<>> /\ email_clean = <<>> THEN <<NoContactMsg>>
    ELSE IF phone_clean # <<>>
    THEN (IF ~validate_phone(phone_clean).ok
          THEN <<validate_phone(phone_clean).err>> ELSE <<>>)
    ELSE (IF ~validate_email(email_clean, FALSE).ok
          THEN <<validate_email(email_clean, FALSE).err>> ELSE <<>>)

\* the checks of the contact fields, shared by both forms (lines 503-515, 824-836)
contact_errors(phone_clean, email_clean) ==
    IF phone_clean = <<>> /\ email_clean = <<>> THEN <<NoContactMsg>>
    ELSE (IF phone_clean # <<>> /\ ~validate_phone(phone_clean).ok
          THEN <<validate_phone(phone_clean).err>> ELSE <<>>)
         \o
         (IF email_clean # <<>> /\ ~validate_email(email_clean, FALSE).ok
          THEN <<validate_email(email_clean, FALSE).err>> ELSE <<>>)

\* save_visit_lead returning at the first defect
save_visit_lead_first_error(p, d, L) ==
    IF ~validate_name(d.name).ok
    THEN [ok |-> FALSE, errs |-> <<validate_name(d.name).err>>, leads |-> L]
    ELSE IF contact_errors(strip(d.phone), strip(d.email)) # <<>>
    THEN [ok |-> FALSE, errs |-> contact_errors(strip(d.phone), strip(d.email)),
          leads |-> L]
    ELSE [ok |-> TRUE, errs |-> <<>>,
          leads |-> Append(L, [ts |-> now,
                               property_id |-> GetOpt(p, "id"),
                               title |-> GetOpt(p, "title"),
                               region |-> GetOpt(p, "region_key"),
                               name |-> strip(d.name),
                               phone |-> strip(d.phone),
                               email |-> strip(d.email),
                               visit_date |-> d.visit_date,
                               visit_time |-> d.visit_time,
                               note |-> strip(d.note),
                               source |-> "site_visit"])]

\* save_visit_lead(p, name, phone, email, visit_date, visit_time, note) on the
\* ledger L: what it returns and the ledger it leaves
save_visit_lead(p, d, L) ==
    LET phone_clean == strip(d.phone)
        email_clean == strip(d.email)
        errors ==
            (IF ~validate_name(d.name).ok THEN <<validate_name(d.name).err>> ELSE <<>>)
            \o contact_errors(phone_clean, email_clean)
            \o (IF d.visit_date \notin Dates THEN <<"Please select a valid date.">> ELSE <<>>)
            \o (IF d.visit_time \notin Times THEN <<"Please select a valid time.">> ELSE <<>>)
        lead == [ts |-> now,
                 property_id |-> GetOpt(p, "id"),
                 title |-> GetOpt(p, "title"),
                 region |-> GetOpt(p, "region_key"),
                 name |-> strip(d.name),
                 phone |-> phone_clean,
                 email |-> email_clean,
                 visit_date |-> d.visit_date,
                 visit_time |-> d.visit_time,
                 note |-> strip(d.note),
                 source |-> "site_visit"]
    IN  IF errors # <<>> THEN [ok |-> FALSE, errs |-> errors, leads |-> L]
        ELSE [ok |-> TRUE, errs |-> <<>>, leads |-> Append(L, lead)]

\* send_message appending the record before it looks at the errors
send_message_append_first(d, L) ==
    LET errs ==
            (IF ~validate_name(d.name).ok THEN <<validate_name(d.name).err>> ELSE <<>>)
            \o contact_errors(strip(d.phone), strip(d.email))
            \o (IF ~validate_message(d.note).ok THEN <<validate_message(d.note).err>> ELSE <<>>)
    IN  [ok |-> errs = <<>>, errs |-> errs,
         leads |-> Append(L, [ts |-> now,
                              property_id |-> Null,
                              title |-> Null,
                              region |-> Null,
                              name |-> strip(d.name),
                              phone |-> strip(d.phone),
                              email |-> strip(d.email),
                              visit_date |-> "",
                              visit_time |-> "",
                              note |-> strip(d.note),
                              source |-> "contact_form"])]

\* the "Send message" handler on the ledger L (d.note is the message)
send_message(d, L) ==
    LET qp_clean == strip(d.phone)
        qe_clean == strip(d.email)
        errs ==
            (IF ~validate_name(d.name).ok THEN <<validate_name(d.name).err>> ELSE <<>>)
            \o contact_errors(qp_clean, qe_clean)
            \o (IF ~validate_message(d.note).ok THEN <<validate_message(d.note).err>> ELSE <<>>)
        lead == [ts |-> now,
                 property_id |-> Null,
                 title |-> Null,
                 region |-> Null,
                 name |-> strip(d.name),
                 phone |-> qp_clean,
                 email |-> qe_clean,
                 visit_date |-> "",
                 visit_time |-> "",
                 note |-> strip(d.note),
                 source |-> "contact_form"]
    IN  IF errs # <<>> THEN [ok |-> FALSE, errs |-> errs, leads |-> L]
        ELSE [ok |-> TRUE, errs |-> <<>>, leads |-> Append(L, lead)]

-----------------------------------------------------------------------------
(* Sidebar: login and sign-out (src/app.py 239-256).                       *)

\* login keeping the name as typed
login_untrimmed(name) ==
    /\ user = NoUser
    /\ IF validate_name(name).ok
       THEN /\ user' = name
            /\ s' = filters_ui(s, data)
            /\ EvalFiltered(filters_ui(s, data))
            /\ out' = [op |-> "login", errs |-> <<>>]
       ELSE /\ out' = [op |-> "login", errs |-> <<validate_name(name).err>>]
            /\ UNCHANGED <<user, s, data, filtered>>
    /\ UNCHANGED <<leads, favorites, show, visit_fallback_open, visit_fallback_p,
                   has_dialog, dlg, form, arg>>

\* "Continue": a valid name signs in and st.rerun() starts the first full run;
\* otherwise the error is shown and the script stops at the gate
login(name) ==
    /\ user = NoUser
    /\ IF validate_name(name).ok
       THEN /\ user' = strip(name)
            /\ s' = filters_ui(s, data)
            /\ EvalFiltered(filters_ui(s, data))
            /\ out' = [op |-> "login", errs |-> <<>>]
       ELSE /\ out' = [op |-> "login", errs |-> <<validate_name(name).err>>]
            /\ UNCHANGED <<user, s, data, filtered>>
    /\ UNCHANGED <<leads, favorites, show, visit_fallback_open, visit_fallback_p,
                   has_dialog, dlg, form, arg>>

\* signout clearing the whole session
signout_reset ==
    /\ PageLive
    /\ user' = NoUser
    /\ leads' = <<>>
    /\ filtered' = <<>>
    /\ out' = [op |-> "signout", errs |-> <<>>]
    /\ UNCHANGED <<favorites, show, visit_fallback_open, visit_fallback_p,
                   s, data, has_dialog, dlg, form, arg>>

\* "Sign out": the run that st.rerun() starts stops at the gate and shows no view
signout ==
    /\ PageLive
    /\ user' = NoUser
    /\ filtered' = <<>>
    /\ out' = [op |-> "signout", errs |-> <<>>]
    /\ UNCHANGED <<leads, favorites, show, visit_fallback_open, visit_fallback_p,
                   s, data, has_dialog, dlg, form, arg>>

-----------------------------------------------------------------------------
(* The cards' buttons (src/app.py 636-767) and the visit forms             *)
(* (src/app.py 542-588, 774-800).                                          *)

\* pid = p.get("id", i) of the k-th card; enumerate() counts from 0
pid(k) == Get(data[filtered[k]], "id", k - 1)

\* a run whose handler leaves the filter keys alone
CardRun(op, errs) ==
    /\ s' = filters_ui(s, data)
    /\ EvalFiltered(filters_ui(s, data))
    /\ out' = [op |-> op, errs |-> errs]

fav(k) ==
    /\ PageLive /\ k \in DOMAIN filtered
    /\ favorites' = IF pid(k) \in favorites
                    THEN favorites \ {pid(k)} ELSE favorites \cup {pid(k)}
    /\ CardRun("fav", <<>>)
    /\ UNCHANGED <<user, leads, show, visit_fallback_open, visit_fallback_p,
                   has_dialog, dlg, form, arg>>

details(k) ==
    /\ PageLive /\ k \in DOMAIN filtered
    /\ show' = IF pid(k) \in show THEN show \ {pid(k)} ELSE show \cup {pid(k)}
    /\ CardRun("d", <<>>)
    /\ UNCHANGED <<user, leads, favorites, visit_fallback_open, visit_fallback_p,
                   has_dialog, dlg, form, arg>>

\* "Book visit" in an open Details expander: open_visit_dialog(p)
bk(k) ==
    /\ PageLive /\ k \in DOMAIN filtered /\ pid(k) \in show
    /\ IF has_dialog
       THEN /\ dlg' = filtered[k]
            /\ UNCHANGED <<visit_fallback_open, visit_fallback_p>>
       ELSE /\ visit_fallback_p' = filtered[k]
            /\ visit_fallback_open' = TRUE
            /\ dlg' = dlg
    /\ CardRun("bk", <<>>)
    /\ UNCHANGED <<user, leads, favorites, show, has_dialog, form, arg>>

\* the user edits the fields of a form; the widgets hold d afterwards
fill(d) ==
    /\ user # NoUser /\ d # form
    /\ form' = d
    /\ CardRun("fill", <<>>)
    /\ UNCHANGED <<user, leads, favorites, show, visit_fallback_open, visit_fallback_p,
                   has_dialog, dlg, arg>>

\* "Request visit" in the dialog: accepted, st.rerun() closes the dialog;
\* rejected, the errors are shown in it
dlg_req ==
    /\ user # NoUser /\ dlg # 0 /\ Len(leads) < MaxLeads
    /\ LET r == save_visit_lead(data[dlg], form, leads)
       IN  /\ leads' = r.leads
           /\ dlg' = IF r.ok THEN 0 ELSE dlg
           /\ CardRun("dlg_req", r.errs)
    /\ UNCHANGED <<user, favorites, show, visit_fallback_open, visit_fallback_p,
                   has_dialog, form, arg>>

\* the user dismisses the dialog
dlg_close ==
    /\ user # NoUser /\ dlg # 0
    /\ dlg' = 0
    /\ CardRun("dlg_close", <<>>)
    /\ UNCHANGED <<user, leads, favorites, show, visit_fallback_open, visit_fallback_p,
                   has_dialog, form, arg>>

\* the fallback section is rendered when the flag is set and a property is held
FallbackShown == visit_fallback_open /\ visit_fallback_p # 0

\* "Request visit" in the fallback section
fb_req ==
    /\ PageLive /\ FallbackShown /\ Len(leads) < MaxLeads
    /\ LET r == save_visit_lead(data[visit_fallback_p], form, leads)
       IN  /\ leads' = r.leads
           /\ visit_fallback_open' = IF r.ok THEN FALSE ELSE visit_fallback_open
           /\ visit_fallback_p' = IF r.ok THEN 0 ELSE visit_fallback_p
           /\ CardRun("fb_req", r.errs)
    /\ UNCHANGED <<user, favorites, show, has_dialog, dlg, form, arg>>

\* Cancel closing the form without forgetting its property
fb_cancel_keeps_p ==
    /\ PageLive /\ FallbackShown
    /\ visit_fallback_open' = FALSE
    /\ visit_fallback_p' = visit_fallback_p
    /\ CardRun("fb_cancel", <<>>)
    /\ UNCHANGED <<user, leads, favorites, show, has_dialog, dlg, form, arg>>

\* "Cancel" in the fallback section
fb_cancel ==
    /\ PageLive /\ FallbackShown
    /\ visit_fallback_open' = FALSE
    /\ visit_fallback_p' = 0
    /\ CardRun("fb_cancel", <<>>)
    /\ UNCHANGED <<user, leads, favorites, show, has_dialog, dlg, form, arg>>

\* "Send message" of the quick contact form
send_msg ==
    /\ PageLive /\ Len(leads) < MaxLeads
    /\ LET r == send_message(form, leads)
       IN  /\ leads' = r.leads
           /\ CardRun("send_msg", r.errs)
    /\ UNCHANGED <<user, favorites, show, visit_fallback_open, visit_fallback_p,
                   has_dialog, dlg, form, arg>>

-----------------------------------------------------------------------------
(* The state a signed-in session is in after its first full run over the   *)
(* collection d.                                                           *)

Al == <<"A", "l">>

Idle(d) ==
    /\ user = Al
    /\ leads = <<>>
    /\ favorites = {}
    /\ show = {}
    /\ visit_fallback_open = FALSE
    /\ visit_fallback_p = 0
    /\ data = d
    /\ s = filters_ui(defaults, d)
    /\ filtered = Filtered(d, filters_ui(defaults, d))
    /\ has_dialog = FALSE
    /\ dlg = 0
    /\ form = EmptyDraft
    /\ out = [op |-> "login", errs |-> <<>>]

SignedIn(d) == Idle(d) /\ arg = <<>>

\* the non-empty collections of at most n properties drawn from P
Collections(P, n) == SeqsUpTo(P, n) \ {<<>>}

-----------------------------------------------------------------------------
(* SpecFilter: the selection predicates over drawn collections.            *)

CategoryProps ==
    { [id |-> 1, region_key |-> "X", condition |-> "New", home_type |-> "Individual",
       bedrooms |-> 4, price_inr |-> Rs(6000000)],
      [id |-> 2, region_key |-> "Y", condition |-> "Old", home_type |-> "Apartment",
       bedrooms |-> 2, price_inr |-> Rs(9000000)],
      [id |-> 3, region_key |-> "X", condition |-> "Old", home_type |-> "Apartment",
       price_inr |-> Rs(6000000)],
      [id |-> 4, condition |-> "New", home_type |-> "Apartment",
       bedrooms |-> 2, price_inr |-> Rs(9000000)],
      [id |-> 5, region_key |-> "Y", condition |-> "New", home_type |-> "Individual",
       bedrooms |-> 5, price_inr |-> Rs(6000000)],
      [id |-> 6, region_key |-> "Y", home_type |-> "Individual",
       bedrooms |-> 1, price_inr |-> Rs(6000000)] }

InitFilter == \E d \in Collections(CategoryProps, MaxData) : SignedIn(d)

NextFilter ==
    \/ \E r \in {"All", "X", "Y"} : SetRegion(r)
    \/ \E c \in condition_opts : SetCondition(c)
    \/ \E h \in type_opts : SetType(h)
    \/ \E b \in beds_opts : SetMinBed(b)
    \/ chip_5080
    \/ chip_demo

SpecFilter == InitFilter /\ [][NextFilter]_vars

\* the positions of the view
Shown == Range(filtered)

\* C1: the view holds exactly the properties that pass every predicate: region,
\* condition and home type each equal the selection or the selection is "All",
\* bedrooms >= min_bedrooms unless min_bedrooms is 0, and the budget and
\* free-text tests; each such property is shown once.
C1_FilterExact ==
    /\ Len(filtered) = Cardinality(Shown)
    /\ Shown \subseteq DOMAIN data
    /\ \A i \in DOMAIN data :
          i \in Shown <=>
             /\ s.s_region = "All"
                \/ ("region_key" \in DOMAIN data[i] /\ data[i].region_key = s.s_region)
             /\ s.s_condition = "All"
                \/ ("condition" \in DOMAIN data[i] /\ data[i].condition = s.s_condition)
             /\ s.s_type = "All"
                \/ ("home_type" \in DOMAIN data[i] /\ data[i].home_type = s.s_type)
             /\ s.s_min_bed = 0
                \/ (IF "bedrooms" \in DOMAIN data[i] THEN data[i].bedrooms ELSE 0) >= s.s_min_bed
             /\ budget_ok(data[i], s)
             /\ search_ok(data[i], s)

\* a region and a bedroom minimum are selected; they keep one property and
\* drop another whose region differs
C1_Witness ==
    /\ s.s_region # "All" /\ s.s_min_bed # 0
    /\ filtered # <<>>
    /\ \E i \in DOMAIN data : i \notin Shown /\ Get(data[i], "region_key", None) # s.s_region

-----------------------------------------------------------------------------
(* SpecBudget: the budget test over collections whose prices lie at, just  *)
(* above and around the values the budget can take.                        *)

BudgetProps ==
    { [id |-> 1, price_inr |-> Rs(4500000)],
      [id |-> 2, price_inr |-> Rs(5000000)],
      [id |-> 3, price_inr |-> Rs(5000000) + 1],    \* 5,000,000.5
      [id |-> 4, price_inr |-> Rs(5500000)],
      [id |-> 5] }                                  \* no price_inr

InitBudget == \E d \in Collections(BudgetProps, MaxData) : SignedIn(d)

NextBudget ==
    \/ \E lo, hi \in slider_stops(data) : SetBudget(lo, hi)
    \/ chip_5080

SpecBudget == InitBudget /\ [][NextBudget]_vars

\* the price of a property in half-rupees, 0 when the record has none
PriceOf(i) == IF "price_inr" \in DOMAIN data[i] THEN data[i].price_inr ELSE 0

\* C2: with budget_range = (a, b) every shown property has a <= price_inr <= b,
\* a property priced below a or above b is never shown, and one priced exactly
\* a or exactly b that passes the other predicates is shown; no price_inr
\* counts as price 0.
C2_BudgetInclusive ==
    \A i \in DOMAIN data :
        /\ i \in Shown => Rs(s.s_budget[1]) <= PriceOf(i) /\ PriceOf(i) <= Rs(s.s_budget[2])
        /\ ( /\ PriceOf(i) \in {Rs(s.s_budget[1]), Rs(s.s_budget[2])}
             /\ s.s_region = "All" /\ s.s_condition = "All" /\ s.s_type = "All"
             /\ s.s_min_bed = 0 /\ s.s_search = <<>> )
           => i \in Shown

-----------------------------------------------------------------------------
(* SpecSearch: the free-text test over drawn titles, addresses and queries.*)

SearchProps ==
    { [id |-> 1, title |-> <<"A", "b">>, address |-> <<"C">>, price_inr |-> Rs(6000000)],
      [id |-> 2, title |-> <<"A", "b">>, address |-> <<"B", "a">>, price_inr |-> Rs(6000000)],
      [id |-> 3, title |-> <<"A", "b">>, price_inr |-> Rs(6000000)],
      [id |-> 4, price_inr |-> Rs(6000000)] }

QueryChars == {"B", "c", " "}

InitSearch == \E d \in Collections(SearchProps, MaxData) : SignedIn(d)

NextSearch == \E q \in SeqsUpTo(QueryChars, MaxQuery) : SetSearch(q)

SpecSearch == InitSearch /\ [][NextSearch]_vars

TitleOf(i) == IF "title" \in DOMAIN data[i] THEN data[i].title ELSE <<>>
AddressOf(i) == IF "address" \in DOMAIN data[i] THEN data[i].address ELSE <<>>

\* q occurs in hay when letters are compared without regard to case
OccursNoCase(q, hay) ==
    \E k \in 0..(Len(hay) - Len(q)) :
        \A j \in 1..Len(q) : LowerChar(q[j]) = LowerChar(hay[k + j])

\* the other predicates are at their defaults and the budget spans the prices
OnlySearchSelects ==
    /\ s.s_region = "All" /\ s.s_condition = "All" /\ s.s_type = "All"
    /\ s.s_min_bed = 0
    /\ \A i \in DOMAIN data : budget_ok(data[i], s)

\* C3 as claimed: a property is kept iff the query occurs, case-insensitively,
\* in the concatenation of title and address; an empty query keeps everything.
C3_SearchAsClaimed ==
    OnlySearchSelects =>
        \A i \in DOMAIN data :
            i \in Shown <=>
                \/ s.s_search = <<>>
                \/ OccursNoCase(s.s_search, TitleOf(i) \o AddressOf(i))

\* C3 amended: a property is kept iff the query, stripped of leading and
\* trailing whitespace, occurs case-insensitively in title + " " + address; a
\* query that is empty after stripping keeps everything.
C3_SearchAmended ==
    OnlySearchSelects =>
        \A i \in DOMAIN data :
            i \in Shown <=>
                \/ \A j \in DOMAIN s.s_search : s.s_search[j] \in WS
                \/ OccursNoCase(strip(s.s_search), TitleOf(i) \o <<" ">> \o AddressOf(i))

\* a query in other case than the text, spanning the joint of title and
\* address, keeps one property and drops another
C3_Witness ==
    /\ s.s_search = <<"B", " ", "c">>
    /\ filtered # <<>>
    /\ \E i \in DOMAIN data : i \notin Shown

-----------------------------------------------------------------------------
(* SpecSort: the ordering over drawn collections with equal keys.          *)

SortProps ==
    { [id |-> i, price_inr |-> Rs(pr), area_sqft |-> ar] :
          i \in {1, 2}, pr \in {6000000, 7000000}, ar \in {900, 1200} }
    \cup { [title |-> <<"x">>] }                    \* no id, price_inr, area_sqft

InitSort == \E d \in Collections(SortProps, MaxSortData) : SignedIn(d)

NextSort ==
    \/ \E m \in sort_opts : SetSort(m)
    \/ chip_demo

SpecSort == InitSort /\ [][NextSort]_vars

IdOf(i) == IF "id" \in DOMAIN data[i] THEN data[i].id ELSE 0
AreaOf(i) == IF "area_sqft" \in DOMAIN data[i] THEN data[i].area_sqft ELSE 0

\* the claimed order of the properties at positions i and j of data:
\* "before" when i must come first, "tie" when their keys are equal
Order(i, j) ==
    LET a == CASE s.s_sort = "Newest" -> IdOf(j)
               [] s.s_sort = "Price ↑" -> PriceOf(i)
               [] s.s_sort = "Price ↓" -> PriceOf(j)
               [] s.s_sort = "Area ↑" -> AreaOf(i)
               [] s.s_sort = "Area ↓" -> AreaOf(j)
        b == CASE s.s_sort = "Newest" -> IdOf(i)
               [] s.s_sort = "Price ↑" -> PriceOf(j)
               [] s.s_sort = "Price ↓" -> PriceOf(i)
               [] s.s_sort = "Area ↑" -> AreaOf(j)
               [] s.s_sort = "Area ↓" -> AreaOf(i)
    IN  IF a < b THEN "before" ELSE IF a = b THEN "tie" ELSE "after"

\* C4: the view is ordered by the key of the sort mode (Newest: descending id;
\* Price and Area ascending or descending), and in every mode two properties
\* with equal keys keep the order they have in the loaded collection.
C4_StableOrder ==
    \A a, b \in DOMAIN filtered :
        a < b =>
            \/ Order(filtered[a], filtered[b]) = "before"
            \/ Order(filtered[a], filtered[b]) = "tie" /\ filtered[a] < filtered[b]

\* a descending mode shows three properties, two of them with equal keys
C4_Witness ==
    /\ s.s_sort = "Price ↓"
    /\ Len(filtered) = 3
    /\ Order(filtered[1], filtered[2]) = "before"
    /\ Order(filtered[2], filtered[3]) = "tie"
    /\ data[filtered[2]] # data[filtered[3]]

-----------------------------------------------------------------------------
(* Spec: a session over the built-in collection, from the first run on.    *)

LoginNames == {<<>>, <<"A">>, <<" ", "A", "l", " ">>}

SessionDrafts ==
    { Draft(<<" ", "A", "l">>, Phone10, <<>>, Hello),
      Draft(<<"A">>, <<>>, <<>>, <<>>) }

Init ==
    /\ user = NoUser
    /\ leads = <<>>
    /\ favorites = {}
    /\ show = {}
    /\ visit_fallback_open = FALSE
    /\ visit_fallback_p = 0
    /\ s = defaults
    /\ data = FALLBACK
    /\ filtered = <<>>
    /\ has_dialog \in BOOLEAN
    /\ dlg = 0
    /\ form = EmptyDraft
    /\ arg = <<>>
    /\ out = [op |-> "start", errs |-> <<>>]

Next ==
    \/ \E name \in LoginNames : login(name)
    \/ signout
    \/ \E r \in region_options(data) : SetRegion(r)
    \/ chip_demo
    \/ \E k \in DOMAIN filtered : fav(k)
    \/ \E k \in DOMAIN filtered : details(k)
    \/ \E k \in DOMAIN filtered : bk(k)
    \/ \E d \in SessionDrafts : fill(d)
    \/ dlg_req
    \/ dlg_close
    \/ fb_req
    \/ fb_cancel
    \/ send_msg

Spec == Init /\ [][Next]_vars

\* C5: filtering and sorting are a pure function of (collection, criteria):
\* no run changes the loaded collection, every view is the function's value at
\* the run's criteria, and a run that evaluates them again with the same
\* criteria changes neither the criteria, the ledger nor the favorites and
\* shows the identical ordered view.
C5_FilterPure ==
    [][ /\ data' = data
        /\ user' # NoUser => filtered' = Filtered(data, s')
        /\ out'.op = "chip_demo" =>
              /\ s' = s
              /\ leads' = leads
              /\ favorites' = favorites
              /\ filtered' = filtered ]_vars

\* the filter was evaluated again over a narrowed, non-empty view while the
\* ledger and the favorites held something
C5_Witness ==
    /\ out.op = "chip_demo"
    /\ s.s_region # "All" /\ filtered # <<>>
    /\ leads # <<>> /\ favorites # {}

\* the last record of a ledger
Last(L) == L[Len(L)]

\* C6: across all interactions the ledger is append-only: what it held stays
\* as an unchanged prefix, an accepted site visit appends exactly one record
\* with source site_visit and the property's id, title and region, an accepted
\* contact message appends exactly one record with source contact_form and
\* null property_id, title and region, and nothing else changes the ledger.
C6_AppendOnly ==
    [][ /\ Len(leads') >= Len(leads)
        /\ SubSeq(leads', 1, Len(leads)) = leads
        /\ IF out'.op \in {"fb_req", "dlg_req"} /\ out'.errs = <<>>
           THEN LET p == data[IF out'.op = "fb_req" THEN visit_fallback_p ELSE dlg]
                IN  /\ Len(leads') = Len(leads) + 1
                    /\ Last(leads').source = "site_visit"
                    /\ Last(leads').property_id = <<p.id>>
                    /\ Last(leads').title = <<p.title>>
                    /\ Last(leads').region = <<p.region_key>>
           ELSE IF out'.op = "send_msg" /\ out'.errs = <<>>
           THEN /\ Len(leads') = Len(leads) + 1
                /\ Last(leads').source = "contact_form"
                /\ Last(leads').property_id = <<>>
                /\ Last(leads').title = <<>>
                /\ Last(leads').region = <<>>
           ELSE leads' = leads ]_vars

\* a visit and then a message were accepted, and the user has signed out and
\* in again since
C6_Witness ==
    /\ Len(leads) = 2
    /\ leads[1].source = "site_visit" /\ leads[2].source = "contact_form"
    /\ out.op = "login" /\ user # NoUser

-----------------------------------------------------------------------------
(* SpecSubmit: the two submit handlers over drawn drafts.  The session is  *)
(* signed in, the Details of the first card are open and its "Book visit"  *)
(* has opened the fallback form.                                            *)

NameInputs == {<<>>, <<"A", " ">>, <<" ", "A", "l">>}
PhoneInputs == {<<>>, <<" ">> \o Phone10, <<"1", "2">>}
EmailInputs == {<<>>, EmailABCo, <<"a", "b">>}
NoteInputs == {<<>>, <<" ", "h", "i", " ", " ">>, Hello}

\* the drafts one edit of one field away
OneFieldEdits(d) ==
    {[d EXCEPT !.name = v] : v \in NameInputs}
    \cup {[d EXCEPT !.phone = v] : v \in PhoneInputs}
    \cup {[d EXCEPT !.email = v] : v \in EmailInputs}
    \cup {[d EXCEPT !.note = v] : v \in NoteInputs}

InitSubmit ==
    /\ user = Al
    /\ leads = <<>>
    /\ favorites = {}
    /\ data = FALLBACK
    /\ s = filters_ui(defaults, FALLBACK)
    /\ filtered = Filtered(FALLBACK, filters_ui(defaults, FALLBACK))
    /\ show = {pid(1)}
    /\ visit_fallback_open = TRUE
    /\ visit_fallback_p = filtered[1]
    /\ has_dialog = FALSE
    /\ dlg = 0
    /\ form = EmptyDraft
    /\ arg = <<>>
    /\ out = [op |-> "bk", errs |-> <<>>]

NextSubmit ==
    \/ \E d \in OneFieldEdits(form) : fill(d)
    \/ fb_req
    \/ send_msg

SpecSubmit == InitSubmit /\ [][NextSubmit]_vars

\* the rules of the ledger, each on its own
NameRuleBroken(d) == Len(strip(d.name)) < 2
ContactRuleBroken(d) == strip(d.phone) = <<>> /\ strip(d.email) = <<>>
PhoneRuleBroken(d) == strip(d.phone) # <<>> /\ ~PHONE_RE(strip(d.phone))
EmailRuleBroken(d) == strip(d.email) # <<>> /\ ~EMAIL_RE(strip(d.email))
MessageRuleBroken(d) == Len(strip(d.note)) < 5

\* the number of rules a draft breaks; the message rule counts for the
\* contact form only
Broken(d, contact) ==
    (IF NameRuleBroken(d) THEN 1 ELSE 0)
    + (IF ContactRuleBroken(d) THEN 1 ELSE 0)
    + (IF PhoneRuleBroken(d) THEN 1 ELSE 0)
    + (IF EmailRuleBroken(d) THEN 1 ELSE 0)
    + (IF contact /\ MessageRuleBroken(d) THEN 1 ELSE 0)

\* the step is a press of a submit button
Submitted == out'.op \in {"fb_req", "send_msg"}

\* C7: on both paths a submission that breaks a rule is rejected with a
\* non-empty list of messages and leaves the ledger as it was.
C7_RejectKeepsLedger ==
    [][ (Submitted /\ Broken(form, out'.op = "send_msg") > 0)
            => (out'.errs # <<>> /\ leads' = leads) ]_vars

\* a message that breaks a rule was rejected while the ledger held a record
C7_Witness ==
    /\ out.op = "send_msg" /\ out.errs # <<>>
    /\ leads # <<>>
    /\ Broken(form, TRUE) > 0

\* C8: validation does not stop at the first defect: a draft that breaks k of
\* the rules (name, contact method, phone format, email format, and message
\* for the contact form) gets k messages.
C8_OneMessagePerRule ==
    [][ Submitted => Len(out'.errs) = Broken(form, out'.op = "send_msg") ]_vars

\* a message broke four rules at once and got four messages
C8_Witness ==
    /\ out.op = "send_msg"
    /\ Broken(form, TRUE) = 4
    /\ Len(out.errs) = 4

\* C9: every record of the ledger has a trimmed name of at least 2 characters
\* and a phone or an email, every phone or email it holds passed its format
\* check, and every contact_form record has a note of at least 5 characters
\* after trimming; a site_visit record may hold an empty note.
C9_LedgerRecordsValid ==
    \A i \in DOMAIN leads :
        LET r == leads[i]
        IN  /\ r.name = strip(r.name) /\ Len(r.name) >= 2
            /\ r.phone # <<>> \/ r.email # <<>>
            /\ r.phone # <<>> => PHONE_RE(r.phone)
            /\ r.email # <<>> => EMAIL_RE(r.email)
            /\ r.source = "contact_form" => Len(strip(r.note)) >= 5

\* the ledger holds a site visit without a note and a contact message
C9_Witness ==
    /\ Len(leads) = 2
    /\ leads[1].source = "site_visit" /\ leads[1].note = <<>>
    /\ leads[1].phone # <<>> /\ leads[1].email # <<>>
    /\ leads[2].source = "contact_form"

-----------------------------------------------------------------------------
(* SpecPhone: validate_phone on its own, over drawn phone texts.           *)

\* n characters, all "9" but the k-th, which is c
PhoneBody(n, k, c) == [i \in 1..n |-> IF i = k THEN c ELSE "9"]

PhoneOddChars == {"9", " ", "-", "(", ")", "+", "x", "\t"}

\* an optional "+", a body with one character varied, optional padding
PhoneDraws ==
    { pad \o plus \o PhoneBody(n, k, c) \o pad :
          pad \in {<<>>, <<" ">>}, plus \in {<<>>, <<"+">>},
          n \in 0..(MaxPhone - 1), k \in 1..MaxPhone, c \in PhoneOddChars }

\* the call of validate_phone on the drawn text
check_phone ==
    /\ out.op # "validate_phone"
    /\ out' = [op |-> "validate_phone",
               errs |-> IF validate_phone(arg).ok THEN <<>> ELSE <<validate_phone(arg).err>>]
    /\ UNCHANGED <<user, leads, favorites, show, visit_fallback_open, visit_fallback_p,
                   s, data, filtered, has_dialog, dlg, form, arg>>

InitPhone == Idle(FALLBACK) /\ arg \in PhoneDraws

NextPhone == check_phone

SpecPhone == InitPhone /\ [][NextPhone]_vars

\* C10: a present phone is accepted iff, after trimming, it is an optional
\* "+", then a digit, then only digits, spaces, hyphens and parentheses, and
\* its trimmed length is between 9 and 16; so a phone of trimmed length 17 or
\* more is rejected.
C10_PhoneAsClaimed ==
    (out.op = "validate_phone" /\ strip(arg) # <<>>) =>
        LET ph == strip(arg)
            rest == IF ph[1] = "+" THEN Tail(ph) ELSE ph
        IN  (out.errs = <<>>) <=>
               /\ Len(ph) >= 9 /\ Len(ph) <= 16
               /\ rest # <<>> /\ rest[1] \in Digit
               /\ \A i \in 2..Len(rest) : rest[i] \in Digit \cup {" ", "-", "(", ")"}

-----------------------------------------------------------------------------
(* SpecEmail: validate_email on its own and inside the two submit handlers, *)
(* over drawn email texts.  The form holds a valid name, a valid phone, a  *)
(* valid note and the drawn email; the fallback visit form is open.        *)

MaxEmail == 6

NotAnEmail == <<"n","o","t","-","a","n","-","e","m","a","i","l">>

\* "1" is a domain character but no letter
EmailChars == {"a", "@", ".", "1"}

EmailDraws ==
    SeqsUpTo(EmailChars, MaxEmail)
    \cup { NotAnEmail, EmailABCo, <<" ">> \o EmailABCo \o <<" ">>,
           <<"_", "@", "a", ".", "a", "a">>, <<"a", "@", "_", ".", "a", "a">>,
           <<"a", "!", "@", "b", ".", "c", "o">>, <<"a", "@", "b", " ", ".", "c", "o">>,
           <<"a", "%", "+", "-", "@", "b", "-", ".", "c", "o", "m">> }

\* the call of validate_email on the drawn text, as the handlers make it
check_email ==
    /\ out.op # "validate_email"
    /\ out' = [op |-> "validate_email",
               errs |-> IF validate_email(arg, FALSE).ok
                        THEN <<>> ELSE <<validate_email(arg, FALSE).err>>]
    /\ UNCHANGED <<user, leads, favorites, show, visit_fallback_open, visit_fallback_p,
                   s, data, filtered, has_dialog, dlg, form, arg>>

InitEmail ==
    /\ user = Al
    /\ leads = <<>>
    /\ favorites = {}
    /\ data = FALLBACK
    /\ s = filters_ui(defaults, FALLBACK)
    /\ filtered = Filtered(FALLBACK, filters_ui(defaults, FALLBACK))
    /\ show = {pid(1)}
    /\ visit_fallback_open = TRUE
    /\ visit_fallback_p = filtered[1]
    /\ has_dialog = FALSE
    /\ dlg = 0
    /\ arg \in EmailDraws
    /\ form = Draft(Al, Phone10, arg, Hello)
    /\ out = [op |-> "bk", errs |-> <<>>]

NextEmail ==
    \/ check_email
    \/ fb_req
    \/ send_msg

SpecEmail == InitEmail /\ [][NextEmail]_vars

\* the positions of character c in text t
Positions(t, c) == {i \in DOMAIN t : t[i] = c}

\* local@domain.tld: exactly one "@"; before it a non-empty local part over
\* [A-Za-z0-9._%+-]; after it only [A-Za-z0-9.-], with a dot; what follows
\* the last dot is at least 2 letters and what precedes it is not empty
EmailShape(t) ==
    /\ Cardinality(Positions(t, "@")) = 1
    /\ LET at == CHOOSE i \in Positions(t, "@") : TRUE
           local == SubSeq(t, 1, at - 1)
           dom == SubSeq(t, at + 1, Len(t))
       IN  /\ local # <<>>
           /\ \A k \in DOMAIN local : local[k] \in Letter \cup Digit \cup {".", "_", "%", "+", "-"}
           /\ \A k \in DOMAIN dom : dom[k] \in Letter \cup Digit \cup {".", "-"}
           /\ Positions(dom, ".") # {}
           /\ LET dot == Max(Positions(dom, "."))
              IN  /\ dot > 1
                  /\ Len(dom) - dot >= 2
                  /\ \A k \in (dot + 1)..Len(dom) : dom[k] \in Letter

\* C11: a present email is accepted iff, after trimming, it has the shape
\* local@domain.tld (one "@", non-empty local part over [A-Za-z0-9._%+-],
\* domain over [A-Za-z0-9.-] with a dot, final label of at least 2 letters);
\* "not-an-email" is rejected and "a@b.co" accepted; and a submission whose
\* email is present and invalid is rejected, and stores nothing, although its
\* name, phone and note are valid.
C11_EmailShape ==
    /\ (out.op = "validate_email" /\ strip(arg) # <<>>) =>
          ((out.errs = <<>>) <=> EmailShape(strip(arg)))
    /\ (out.op = "validate_email" /\ arg = NotAnEmail) => out.errs # <<>>
    /\ (out.op = "validate_email" /\ arg = EmailABCo) => out.errs = <<>>
    /\ (out.op \in {"fb_req", "send_msg"}
          /\ strip(form.email) # <<>> /\ ~EmailShape(strip(form.email))) =>
          /\ validate_phone(form.phone).ok
          /\ out.errs = <<"Enter a valid email address.">>
          /\ leads = <<>>

\* a visit request with a valid phone and the email "not-an-email" was rejected
C11_Witness ==
    /\ out.op = "fb_req"
    /\ form.email = NotAnEmail /\ form.phone = Phone10
    /\ out.errs # <<>> /\ leads = <<>>

-----------------------------------------------------------------------------
(* CSV export of the ledger (src/app.py 862-872):                          *)
(* pd.DataFrame(leads).to_csv(index=False).  A cell is <<>> when empty,    *)
(* <<"int", n>> for n written as an integer, <<"float", n>> for n written  *)
(* as a float ("7.0"), and <<"str", v, q>> for the text v, q telling       *)
(* whether the csv writer puts it in quotes.                               *)

\* the keys of a lead in the order both handlers build it (lines 525-537 and
\* 846-858); DataFrame takes its columns from them
CsvColumns ==
    <<"ts", "property_id", "title", "region", "name", "phone", "email",
      "visit_date", "visit_time", "note", "source">>

\* QUOTE_MINIMAL: a text is quoted when it holds a separator, a quote or a line break
NeedsQuote(v) == \E i \in DOMAIN v : v[i] \in {",", "\"", "\n", "\r"}

\* a cell of a text column; None and "" are both written as nothing
TextCell(v) == IF v = <<>> THEN <<>> ELSE <<"str", v, NeedsQuote(v)>>

\* a cell of a column of whole strings of the model (they hold no separator)
WordCell(v) == IF v = "" THEN <<>> ELSE <<"str", v, FALSE>>

\* a column of integers and None is a float64 column: DataFrame turns None
\* into NaN, and to_csv writes the integers as floats
IdAsFloat(L) ==
    /\ \E i \in DOMAIN L : L[i].property_id = Null
    /\ \E i \in DOMAIN L : L[i].property_id # Null

IdCell(r, L) ==
    IF r.property_id = Null THEN <<>>
    ELSE IF IdAsFloat(L) THEN <<"float", r.property_id[1]>>
    ELSE <<"int", r.property_id[1]>>

\* df.to_csv(index=False): the header and one row per record
to_csv(L) ==
    [header |-> CsvColumns,
     rows |-> [i \in DOMAIN L |->
                  <<WordCell(L[i].ts),
                    IdCell(L[i], L),
                    IF L[i].title = Null THEN <<>> ELSE TextCell(L[i].title[1]),
                    IF L[i].region = Null THEN <<>> ELSE WordCell(L[i].region[1]),
                    TextCell(L[i].name),
                    TextCell(L[i].phone),
                    TextCell(L[i].email),
                    WordCell(L[i].visit_date),
                    WordCell(L[i].visit_time),
                    TextCell(L[i].note),
                    WordCell(L[i].source)>>]]

\* the download button is live only over a non-empty ledger (line 863)
download_enabled(L) == L # <<>>

\* the field names of a Lead record as the data model lists them
LeadFieldNames ==
    <<"timestamp", "property_id", "title", "region", "name", "phone", "email",
      "visit_date", "visit_time", "note", "source">>

\* the key under which the code keeps a field: the timestamp is "ts"
KeyOf(field) == IF field = "timestamp" THEN "ts" ELSE field

\* C12: the export is a function of the ledger: over n >= 1 records it is the
\* header of the Lead field names (timestamp, property_id, title, region,
\* name, phone, email, visit_date, visit_time, note, source) and exactly n
\* rows, the i-th holding the values of the i-th record; over an empty ledger
\* it is disabled.  (The header is compared by field: the code's key for the
\* timestamp is "ts".)
C12_CsvAsClaimed ==
    IF leads = <<>> THEN ~download_enabled(leads)
    ELSE /\ download_enabled(leads)
         /\ to_csv(leads).header = [i \in DOMAIN LeadFieldNames |-> KeyOf(LeadFieldNames[i])]
         /\ Len(to_csv(leads).rows) = Len(leads)
         /\ \A i \in DOMAIN leads :
               LET r == leads[i]
                   row == to_csv(leads).rows[i]
               IN  /\ row[1] = WordCell(r.ts)
                   /\ row[2] = IF r.property_id = Null THEN <<>> ELSE <<"int", r.property_id[1]>>
                   /\ row[3] = IF r.title = Null THEN <<>> ELSE TextCell(r.title[1])
                   /\ row[4] = IF r.region = Null THEN <<>> ELSE WordCell(r.region[1])
                   /\ row[5] = TextCell(r.name)
                   /\ row[6] = TextCell(r.phone)
                   /\ row[7] = TextCell(r.email)
                   /\ row[8] = WordCell(r.visit_date)
                   /\ row[9] = WordCell(r.visit_time)
                   /\ row[10] = TextCell(r.note)
                   /\ row[11] = WordCell(r.source)

-----------------------------------------------------------------------------
(* SpecLoad: load_data (src/app.py 261-266, 353-388) over the states the   *)
(* two candidate files can be in.  arg holds the two files in the order    *)
(* of candidate_paths: working directory first, then the script's          *)
(* directory.  A file is missing, unreadable, malformed, or holds a JSON   *)
(* value of some type; the value of a list is its sequence of properties.  *)

Missing == [kind |-> "missing", type |-> "none", value |-> <<>>]
Unreadable == [kind |-> "unreadable", type |-> "none", value |-> <<>>]
Malformed == [kind |-> "malformed", type |-> "none", value |-> <<>>]
JsonList(v) == [kind |-> "json", type |-> "list", value |-> v]
JsonOther(ty) == [kind |-> "json", type |-> ty, value |-> <<>>]

\* _read_json with the exception let through
_read_json_no_except(f) ==
    IF f.kind = "json"
    THEN [raised |-> FALSE, type |-> f.type, value |-> f.value]
    ELSE [raised |-> TRUE, type |-> "none", value |-> <<>>]

\* _read_json(path): open() and json.load() raise on a file that cannot be
\* read or parsed, and the except clause turns that into []
_read_json(f) ==
    IF f.kind = "json"
    THEN [raised |-> FALSE, type |-> f.type, value |-> f.value]
    ELSE [raised |-> FALSE, type |-> "list", value |-> <<>>]

\* the loop of load_data from candidate i on
RECURSIVE load_from(_, _)
load_from(files, i) ==
    IF i > Len(files) THEN [raised |-> FALSE, data |-> FALLBACK]
    ELSE IF files[i].kind = "missing" THEN load_from(files, i + 1)
    ELSE LET r == _read_json(files[i])
         IN  IF r.raised THEN [raised |-> TRUE, data |-> <<>>]
             ELSE IF r.type = "list" /\ r.value # <<>>
             THEN [raised |-> FALSE, data |-> r.value]
             ELSE load_from(files, i + 1)

load_data(files) == load_from(files, 1)

LoadProps ==
    { [id |-> 1, region_key |-> "X", price_inr |-> Rs(6500000)],
      [id |-> 2, region_key |-> "Y", price_inr |-> Rs(32000000)] }

FileStates ==
    {Missing, Unreadable, Malformed, JsonOther("dict"), JsonOther("null"), JsonList(<<>>)}
    \cup {JsonList(d) : d \in Collections(LoadProps, MaxData)}

\* the first full run of a session: the collection is loaded (and cached), the
\* filter widgets are drawn over it and the view is computed
first_run ==
    /\ user # NoUser /\ out.op = "start"
    /\ LET r == load_data(arg)
       IN  IF r.raised
           THEN /\ out' = [op |-> "load_data", errs |-> <<"Exception">>]
                /\ UNCHANGED <<data, s, filtered>>
           ELSE /\ data' = r.data
                /\ s' = filters_ui(s, r.data)
                /\ filtered' = Filtered(r.data, filters_ui(s, r.data))
                /\ out' = [op |-> "load_data", errs |-> <<>>]
    /\ UNCHANGED <<user, leads, favorites, show, visit_fallback_open, visit_fallback_p,
                   has_dialog, dlg, form, arg>>

InitLoad ==
    /\ user = Al
    /\ leads = <<>>
    /\ favorites = {}
    /\ show = {}
    /\ visit_fallback_open = FALSE
    /\ visit_fallback_p = 0
    /\ s = defaults
    /\ data = <<>>
    /\ filtered = <<>>
    /\ has_dialog = FALSE
    /\ dlg = 0
    /\ form = EmptyDraft
    /\ arg \in [1..2 -> FileStates]
    /\ out = [op |-> "start", errs |-> <<>>]

NextLoad == first_run

SpecLoad == InitLoad /\ [][NextLoad]_vars

\* a candidate that exists and parses to a non-empty JSON list
Usable(f) == f.kind = "json" /\ f.type = "list" /\ f.value # <<>>

\* C13: loading never raises and always yields a non-empty list: the first
\* candidate, working directory before script directory, that exists and
\* parses to a non-empty JSON list; and the built-in fallback dataset when
\* every candidate is missing, unreadable, malformed, not a list or empty.
C13_LoadFallsBack ==
    out.op = "load_data" =>
        /\ out.errs = <<>>
        /\ data # <<>>
        /\ IF Usable(arg[1]) THEN data = arg[1].value
           ELSE IF Usable(arg[2]) THEN data = arg[2].value
           ELSE data = FALLBACK

\* the working directory's file was malformed and the script directory's file
\* was loaded
C13_Witness ==
    /\ out.op = "load_data"
    /\ arg[1] = Malformed /\ Usable(arg[2])
    /\ data = arg[2].value

-----------------------------------------------------------------------------
(* The budget handed to the slider, checked under SpecBudget.              *)

\* the range b brought into [pmin_data, pmax_data] of the loaded collection,
\* or that whole range when the two ends cross
Clamped(b) ==
    LET lo == IF b[1] < pmin_data(data) THEN pmin_data(data) ELSE b[1]
        hi == IF b[2] > pmax_data(data) THEN pmax_data(data) ELSE b[2]
    IN  IF lo > hi THEN <<pmin_data(data), pmax_data(data)>> ELSE <<lo, hi>>

-----------------------------------------------------------------------------
(* SpecEmi: the EMI calculator of an open Details expander (src/app.py     *)
(* 739-764).  loan_amt, rate and r are Python floats.  The model draws the *)
(* rate as 0 or 1200 / 2^k percent a year, for which (rate / 100.0) / 12.0 *)
(* is exactly 0 or 1 / 2^k, and keeps a float as [num, shift], the value   *)
(* num / 2^shift.  arg holds the three inputs.                             *)

MaxRateExp == 60
MaxYears == 2

\* the bits of precision of a Python float
MantBits == 53

LoanInputs == {0, 1, 1000000}

\* the annual rates drawn: 0 and 1200 / 2^k
RateInputs == {[num |-> 0, shift |-> 0]} \cup {[num |-> 1200, shift |-> k] : k \in 0..MaxRateExp}

\* r = (rate / 100.0) / 12.0
monthly_rate(rate) == [num |-> rate.num \div 1200, shift |-> rate.shift]

\* whether 1 + r, rounded to the nearest float, is 1: r is 0, or r = 1 / 2^k is
\* at most half the gap between 1 and the next float (the tie goes to 1)
one_plus_is_one(r) == r.num = 0 \/ r.shift >= MantBits

\* lines 758-763: the value is kept as the expression that computes it; a
\* division whose divisor is 0.0 raises ZeroDivisionError.  ((1 + r) ** n) - 1
\* is 0.0 exactly when 1 + r is 1.0.
emi(loan_amt, rate, years) ==
    LET r == monthly_rate(rate)
        n == years * 12
    IN  IF n > 0
        THEN IF r.num = 0
             THEN [raised |-> FALSE, form |-> "loan_amt / n", n |-> n]
             ELSE IF one_plus_is_one(r)
             THEN [raised |-> TRUE, form |-> "ZeroDivisionError", n |-> n]
             ELSE [raised |-> FALSE,
                   form |-> "loan_amt * r * (1 + r) ** n / ((1 + r) ** n - 1)", n |-> n]
        ELSE [raised |-> FALSE, form |-> "0.0", n |-> n]

\* a run that renders the expander with the inputs held by its three widgets
emi_run ==
    /\ PageLive /\ show # {} /\ out.op # "emi"
    /\ LET e == emi(arg.loan_amt, arg.rate, arg.years)
       IN  out' = [op |-> "emi",
                   errs |-> IF e.raised THEN <<"ZeroDivisionError">> ELSE <<e.form>>]
    /\ UNCHANGED <<user, leads, favorites, show, visit_fallback_open, visit_fallback_p,
                   s, data, filtered, has_dialog, dlg, form, arg>>

InitEmi ==
    /\ user = Al
    /\ leads = <<>>
    /\ favorites = {}
    /\ data = FALLBACK
    /\ s = filters_ui(defaults, FALLBACK)
    /\ filtered = Filtered(FALLBACK, filters_ui(defaults, FALLBACK))
    /\ show = {pid(1)}
    /\ visit_fallback_open = FALSE
    /\ visit_fallback_p = 0
    /\ has_dialog = FALSE
    /\ dlg = 0
    /\ form = EmptyDraft
    /\ arg \in [loan_amt : LoanInputs, rate : RateInputs, years : 1..MaxYears]
    /\ out = [op |-> "d", errs |-> <<>>]

NextEmi == emi_run

SpecEmi == InitEmi /\ [][NextEmi]_vars

\* C15: for P >= 0, r_year >= 0 and n_years >= 1 the EMI is P / n_months when
\* the monthly rate r_year/100/12 is 0 and
\* P*r*(1+r)^n_months / ((1+r)^n_months - 1) otherwise, and the computation
\* never divides by zero.
C15_EmiAsClaimed ==
    out.op = "emi" =>
        /\ out.errs # <<"ZeroDivisionError">>
        /\ out.errs = IF arg.rate.num = 0
                      THEN <<"loan_amt / n">>
                      ELSE <<"loan_amt * r * (1 + r) ** n / ((1 + r) ** n - 1)">>

-----------------------------------------------------------------------------
(* The login gate, checked under Spec.                                     *)

\* C16: the signed-in user is always absent or a trimmed name of at least 2
\* characters; while nobody is signed in no interaction appends a lead,
\* changes the favorites or opens a visit form; and signing out changes the
\* user only: the ledger, the favorites and the filter criteria stay.
C16_UserGate ==
    /\ [](user = NoUser \/ (user = strip(user) /\ Len(user) >= 2))
    /\ [][ /\ user = NoUser =>
                /\ leads' = leads
                /\ favorites' = favorites
                /\ visit_fallback_open' = visit_fallback_open
                /\ visit_fallback_p' = visit_fallback_p
                /\ dlg' = dlg
           /\ out'.op = "signout" =>
                /\ user # NoUser /\ user' = NoUser
                /\ leads' = leads
                /\ favorites' = favorites
                /\ s' = s ]_vars

\* a user with a lead, a favorite and a narrowed filter has signed out
C16_Witness ==
    /\ out.op = "signout" /\ user = NoUser
    /\ leads # <<>> /\ favorites # {}
    /\ s.s_region # "All"

-----------------------------------------------------------------------------
(* The fallback visit form, checked under Spec.                            *)

\* C17: the fallback visit form is open exactly when a target property is
\* recorded; booking a visit without a dialog API sets both, an accepted
\* visit request and Cancel clear both, a rejected visit request leaves the
\* form open on the same property, and Cancel leaves the ledger unchanged.
C17_FallbackFormPaired ==
    /\ [](visit_fallback_open <=> visit_fallback_p # 0)
    /\ [][ /\ (out'.op = "bk" /\ ~has_dialog) =>
                (visit_fallback_open' /\ visit_fallback_p' \in DOMAIN data)
           /\ (out'.op = "bk" /\ has_dialog) =>
                (visit_fallback_open' = visit_fallback_open
                    /\ visit_fallback_p' = visit_fallback_p)
           /\ (out'.op = "fb_req" /\ out'.errs = <<>>) =>
                (~visit_fallback_open' /\ visit_fallback_p' = 0
                    /\ Len(leads') = Len(leads) + 1)
           /\ (out'.op = "fb_req" /\ out'.errs # <<>>) =>
                (visit_fallback_open' /\ visit_fallback_p' = visit_fallback_p
                    /\ visit_fallback_p # 0 /\ leads' = leads)
           /\ out'.op = "fb_cancel" =>
                (visit_fallback_open /\ ~visit_fallback_open'
                    /\ visit_fallback_p' = 0 /\ leads' = leads) ]_vars

\* a visit request was rejected and the form stays open on its property,
\* while the ledger holds an earlier record
C17_Witness ==
    /\ out.op = "fb_req" /\ out.errs # <<>>
    /\ visit_fallback_open /\ visit_fallback_p # 0
    /\ leads # <<>>

=============================================================================
